---- MODULE Spec2Model ----
(***************************************************************************)
(* Crawl-and-reconcile pipeline of the IKEA crawler.                       *)
(*                                                                         *)
(*   Spec        one run of IKEACrawler.run (ikea/crawler.py) against the  *)
(*               listing client (ikea/client.py), sequential or concurrent *)
(*   SpecStore   Pipeline.process_items / save_items (ikea/pipeline.py)    *)
(*               against StorageService (ikea/storage.py)                  *)
(*   SpecReport  Pipeline._generate_report on batches of up to MaxTotal    *)
(*               records                                                   *)
(*   SpecEnrich  one call of IKEACrawler._process_single_product           *)
(*   SpecLoop    the loop of run.py                                        *)
(***************************************************************************)
EXTENDS Integers, Sequences, FiniteSets, TLC

\* ------------------------------------------------------------------ bounds
MaxId == 2          \* product identifiers are 1..MaxId
MaxListings == 2    \* listings one subcategory returns, over all its pages
MaxCap == 2         \* num_products is 0 (None: no cap) or 1..MaxCap
MaxCats == 2        \* categories in the navigation page
MaxSubCats == 2     \* sub-categories in the navigation page, over all categories
MaxBatch == 2       \* records in a batch given to the pipeline or the store
MaxTotal == 50      \* records in a batch a coverage report is made of
MaxRaises == 2      \* exceptions raised inside the cycles of run.py

\* ------------------------------------------------------- program constants
RetryTotal == 5     \* Retry(total=5, ...)
PageEnd == 1000     \* end = 1000
PageStep == 1000    \* end += 1000
MantissaBits == 53  \* significand bits of the float64 pandas divides in

Ids == 1..MaxId
Outcomes == {"ok", "nofetch", "raise"}
NoProducts == "Restoran i Bistro"
SubCatNames == {NoProducts, "Lampe"}

\* One entry of the listing endpoint's productWindow: its identifier and what
\* enriching it does after the seen check: "ok" returns a product, "nofetch" is
\* the detail page that cannot be fetched (return None), "raise" an exception
\* raised while the listing or its page is read.
Listing == [id : Ids, outcome : Outcomes]

VARIABLES
    \* IKEACrawler
    num_products, concurrent, products, crawled_ids, done,
    \* IKEACrawler.run
    pc, category_tree, cat, sub,
    \* IKEAClient.get_products_in_cat
    start, end, retries, all_products, windows,
    \* _process_products / _process_products_concurrent
    sub_products, idx, processed_products, tasks,
    \* history of the run
    failed_subs, late_fail, listed_subs, ok_ids, seq_crawled, seq_ids, failing_ids,
    server_error_subs,
    \* the table behind StorageService, in row order
    store,
    \* the batch a Pipeline or StorageService method is called with, what the
    \* last call returned, and the identifiers given to upsert so far
    items, ret, upserted,
    \* the records _generate_report is called with, and the report it returns
    report_items, report,
    \* one call of _process_single_product: what the listing's pages hold, the
    \* place in the function, the locals assigned so far and what it returned
    page, single_pc, fields, single_ret,
    \* the loop of run.py: its place, the exceptions given to sentry and the
    \* cooldowns slept so far
    loop_pc, captured, slept

crawlVars == <<num_products, concurrent, products, crawled_ids, done, pc,
               category_tree, cat, sub, start, end, retries, all_products, windows,
               sub_products, idx, processed_products, tasks,
               failed_subs, late_fail, listed_subs, ok_ids, seq_crawled, seq_ids,
               failing_ids, server_error_subs>>

storeVars == <<store, items, ret, upserted>>

reportVars == <<report_items, report>>

enrichVars == <<page, single_pc, fields, single_ret>>

loopVars == <<loop_pc, captured, slept>>

vars == <<crawlVars, storeVars, reportVars, enrichVars, loopVars>>

\* ----------------------------------------------------------------- helpers
RECURSIVE SeqsUpTo(_, _)
SeqsUpTo(S, n) ==
    IF n = 0 THEN {<<>>}
    ELSE LET shorter == SeqsUpTo(S, n - 1)
         IN  shorter \cup {Append(s, x) : s \in {t \in shorter : Len(t) = n - 1}, x \in S}

Range(s) == {s[i] : i \in 1..Len(s)}

\* The product dict _process_single_product builds for a listing, by its key.
Product(l) == l.id

\* ============================================================ IKEACrawler
\* What _process_single_product gives for listing l when the seen check reads
\* seen: None for an identifier already crawled, else the listing's outcome.
SingleResult(seen, l) ==
    IF l.id \in seen THEN "none"
    ELSE CASE l.outcome = "ok" -> "ok"
           [] l.outcome = "nofetch" -> "none"
           [] l.outcome = "raise" -> "exc"

\* self._crawled_ids after _process_single_product ran on l: the identifier is
\* appended right after the check, before any page is fetched, and stays there
\* whatever the rest of the call does.
CrawledAfter(seen, l) == seen \cup {l.id}

\* The cap check comparing with > instead of ==: one product too late.
CapReachedOneLate(prods, processed) ==
    /\ num_products # 0
    /\ Len(prods) + Len(processed) > num_products

\* if self._num_products and
\*    len(self.products) + len(processed_products) == self._num_products
CapReached(prods, processed) ==
    /\ num_products # 0
    /\ Len(prods) + Len(processed) = num_products

\* The sequential _process_products over a whole listing with no cap, as a
\* function: the identifiers it returns products for and the seen set it leaves.
RECURSIVE SeqFold(_, _, _)
SeqFold(ls, seen, ids) ==
    IF ls = <<>> THEN [seen |-> seen, ids |-> ids]
    ELSE LET l == Head(ls)
         IN  SeqFold(Tail(ls), CrawledAfter(seen, l),
                     IF SingleResult(seen, l) = "ok" THEN ids \cup {l.id} ELSE ids)

OkIds(ls) == {ls[i].id : i \in {j \in 1..Len(ls) : ls[j].outcome = "ok"}}

\* The identifiers with a listing in ls that gives no product: its detail page
\* is not fetched, or enriching it raises.
FailingIds(ls) == {ls[i].id : i \in {j \in 1..Len(ls) : ls[j].outcome # "ok"}}

\* The navigation pages get_categories can parse: categories in page order,
\* each the names of its sub-categories in page order (sub_cat_id is the place).
RECURSIVE SubCatCount(_)
SubCatCount(t) == IF t = <<>> THEN 0 ELSE Len(Head(t)) + SubCatCount(Tail(t))

CategoryTrees == {t \in SeqsUpTo(SeqsUpTo(SubCatNames, MaxSubCats), MaxCats) :
                      SubCatCount(t) <= MaxSubCats}

InTree == cat <= Len(category_tree) /\ sub <= Len(category_tree[cat])

\* What no step of a run changes: the crawler's parameters, the store and
\* what belongs to the other specifications.
runFrame == <<num_products, concurrent, store, items, ret, upserted,
              reportVars, enrichVars, loopVars>>
pagingVars == <<start, end, retries, all_products, windows>>
poolVars == <<sub_products, idx, processed_products, tasks>>
histVars == <<failed_subs, late_fail, listed_subs, ok_ids, seq_crawled, seq_ids,
              failing_ids, server_error_subs>>

CrawlInit ==
    /\ num_products \in 0..MaxCap
    /\ concurrent \in BOOLEAN
    /\ products = <<>>
    /\ crawled_ids = {}
    /\ done = FALSE
    /\ pc = "idle"
    /\ category_tree = <<>>
    /\ cat = 1
    /\ sub = 1
    /\ start = 0
    /\ end = 0
    /\ retries = 0
    /\ all_products = <<>>
    /\ windows = <<>>
    /\ sub_products = <<>>
    /\ idx = 1
    /\ processed_products = <<>>
    /\ tasks = <<>>
    /\ failed_subs = {}
    /\ late_fail = FALSE
    /\ listed_subs = {}
    /\ ok_ids = {}
    /\ seq_crawled = {}
    /\ seq_ids = {}
    /\ failing_ids = {}
    /\ server_error_subs = {}

\* category_tree = self._ikea_client.get_categories()
GetCategories ==
    /\ pc = "idle"
    /\ \E t \in CategoryTrees : category_tree' = t
    /\ pc' = "walk"
    /\ UNCHANGED <<runFrame, products, crawled_ids, done, cat, sub,
                   pagingVars, poolVars, histVars>>

\* get_categories raises (page unreachable or not the expected structure):
\* nothing in run catches it.
GetCategoriesRaises ==
    /\ pc = "idle"
    /\ pc' = "raised"
    /\ UNCHANGED <<runFrame, products, crawled_ids, done, category_tree, cat, sub,
                   pagingVars, poolVars, histVars>>

\* The inner for loop is exhausted: the outer loop takes the next category.
NextCategory ==
    /\ pc = "walk"
    /\ cat <= Len(category_tree)
    /\ sub > Len(category_tree[cat])
    /\ cat' = cat + 1
    /\ sub' = 1
    /\ UNCHANGED <<runFrame, products, crawled_ids, done, pc, category_tree,
                   pagingVars, poolVars, histVars>>

\* if sub_cat['sub_cat_name'] == 'Restoran i Bistro': continue
SkipSubCat ==
    /\ pc = "walk"
    /\ InTree
    /\ category_tree[cat][sub] = NoProducts
    /\ sub' = sub + 1
    /\ UNCHANGED <<runFrame, products, crawled_ids, done, pc, category_tree, cat,
                   pagingVars, poolVars, histVars>>

\* The outer for loop is exhausted: run returns.
RunReturns ==
    /\ pc = "walk"
    /\ cat > Len(category_tree)
    /\ pc' = "returned"
    /\ UNCHANGED <<runFrame, products, crawled_ids, done, category_tree, cat, sub,
                   pagingVars, poolVars, histVars>>

\* run without the check of the sub-category's name: every sub-category of the
\* tree is listed.
OpenSessionAnySubCat ==
    /\ pc = "walk"
    /\ InTree
    /\ pc' = "paging"
    /\ start' = 0
    /\ end' = PageEnd
    /\ retries' = 0
    /\ all_products' = <<>>
    /\ windows' = <<>>
    /\ UNCHANGED <<runFrame, products, crawled_ids, done, category_tree, cat, sub,
                   poolVars, histVars>>

\* ------------------------------------------ IKEAClient.get_products_in_cat
\* products = self._ikea_client.get_products_in_cat(sub_cat['sub_cat_id']):
\* a fresh session with retries, all_products = [], start = 0, end = 1000.
OpenSession ==
    /\ pc = "walk"
    /\ InTree
    /\ category_tree[cat][sub] # NoProducts
    /\ pc' = "paging"
    /\ start' = 0
    /\ end' = PageEnd
    /\ retries' = 0
    /\ all_products' = <<>>
    /\ windows' = <<>>
    /\ UNCHANGED <<runFrame, products, crawled_ids, done, category_tree, cat, sub,
                   poolVars, histVars>>

\* The non-empty windows the endpoint may still return for this sub-category.
Windows == {w \in SeqsUpTo(Listing, MaxListings) :
                w # <<>> /\ Len(all_products) + Len(w) <= MaxListings}

\* The loop body assigning the window instead of extending the list with it:
\* the earlier windows are lost.
PageWindowReplaces ==
    /\ pc = "paging"
    /\ \E w \in Windows : /\ all_products' = w
                          /\ windows' = Append(windows, w)
    /\ start' = end + 1
    /\ end' = end + PageStep
    /\ retries' = 0
    /\ UNCHANGED <<runFrame, products, crawled_ids, done, pc, category_tree, cat, sub,
                   poolVars, histVars>>

\* A request returns a non-empty productWindow: all_products.extend(products);
\* start = end + 1; end += 1000. The next request starts with its retries unused.
PageWindow ==
    /\ pc = "paging"
    /\ \E w \in Windows : /\ all_products' = all_products \o w
                          /\ windows' = Append(windows, w)
    /\ start' = end + 1
    /\ end' = end + PageStep
    /\ retries' = 0
    /\ UNCHANGED <<runFrame, products, crawled_ids, done, pc, category_tree, cat, sub,
                   poolVars, histVars>>

\* A connection error or timeout with retries left: the adapter sends the
\* request again.
PageRetry ==
    /\ pc = "paging"
    /\ retries < RetryTotal
    /\ retries' = retries + 1
    /\ UNCHANGED <<runFrame, products, crawled_ids, done, pc, category_tree, cat, sub,
                   start, end, all_products, windows, poolVars, histVars>>

\* get_products_in_cat returned ls: run hands it to _process_products or to
\* _process_products_concurrent (which submits one task per listing).
StartProcessing(ls) ==
    /\ sub_products' = ls
    /\ idx' = 1
    /\ processed_products' = <<>>
    /\ tasks' = IF concurrent THEN [i \in 1..Len(ls) |-> "queued"] ELSE <<>>
    /\ pc' = IF ls = <<>> THEN "extend" ELSE IF concurrent THEN "pool" ELSE "process"
    /\ listed_subs' = listed_subs \cup {<<cat, sub>>}
    /\ ok_ids' = IF num_products = 0 THEN ok_ids ELSE ok_ids \cup OkIds(ls)
    /\ seq_crawled' = IF num_products = 0 THEN SeqFold(ls, seq_crawled, seq_ids).seen
                      ELSE seq_crawled
    /\ seq_ids' = IF num_products = 0 THEN SeqFold(ls, seq_crawled, seq_ids).ids
                  ELSE seq_ids
    /\ failing_ids' = IF num_products = 0 THEN failing_ids \cup FailingIds(ls)
                      ELSE failing_ids
    /\ UNCHANGED server_error_subs
    /\ UNCHANGED <<runFrame, products, crawled_ids, done, category_tree, cat, sub>>

\* A request returns an empty productWindow: the while loop ends and
\* get_products_in_cat returns all_products.
PageEmpty ==
    /\ pc = "paging"
    /\ StartProcessing(all_products)
    /\ all_products' = <<>>
    /\ windows' = <<>>
    /\ start' = 0
    /\ end' = 0
    /\ retries' = 0
    /\ UNCHANGED <<failed_subs, late_fail>>

\* run without the try/except around get_products_in_cat: the exception of the
\* listing request leaves run.
ListingFailsUncaught ==
    /\ pc' = "raised"
    /\ failed_subs' = failed_subs \cup {<<cat, sub>>}
    /\ late_fail' = (late_fail \/ all_products # <<>>)
    /\ UNCHANGED <<runFrame, products, crawled_ids, done, category_tree, cat, sub,
                   pagingVars, poolVars, listed_subs, ok_ids, seq_crawled, seq_ids,
                   failing_ids>>

\* The request raises out of get_products_in_cat, whose all_products is lost
\* with its frame; run's except clause continues with the next sub-category.
ListingFails ==
    /\ pc' = "walk"
    /\ sub' = sub + 1
    /\ failed_subs' = failed_subs \cup {<<cat, sub>>}
    /\ late_fail' = (late_fail \/ all_products # <<>>)
    /\ all_products' = <<>>
    /\ windows' = <<>>
    /\ start' = 0
    /\ end' = 0
    /\ retries' = 0
    /\ UNCHANGED <<runFrame, products, crawled_ids, done, category_tree, cat,
                   poolVars, listed_subs, ok_ids, seq_crawled, seq_ids, failing_ids>>

\* A connection error or timeout with no retry left.
PageRetriesExhausted ==
    /\ pc = "paging"
    /\ retries = RetryTotal
    /\ ListingFails
    /\ UNCHANGED server_error_subs

\* A 5xx answer: Retry(total=5, backoff_factor=0.1) has no status_forcelist,
\* so the adapter hands the response back without another attempt, and
\* resp.json() raises on the error body.
PageServerError ==
    /\ pc = "paging"
    /\ ListingFails
    /\ server_error_subs' = server_error_subs \cup {<<cat, sub>>}

\* A response that is not retried and is not the expected JSON (an error
\* status with an HTML body, a body without moreProducts): resp.json() or the
\* subscript raises.
PageBadResponse ==
    /\ pc = "paging"
    /\ ListingFails
    /\ UNCHANGED server_error_subs

\* ------------------------------------------------------ _process_products
\* The for loop without its try/except: an exception of
\* _process_single_product leaves _process_products and run.
SeqStepUncaught ==
    /\ pc = "process"
    /\ idx <= Len(sub_products)
    /\ LET l == sub_products[idx]
           r == SingleResult(crawled_ids, l)
           pp == IF r = "ok" THEN Append(processed_products, Product(l))
                 ELSE processed_products
           hit == r = "ok" /\ CapReached(products, pp)
       IN  /\ crawled_ids' = CrawledAfter(crawled_ids, l)
           /\ processed_products' = pp
           /\ done' = (done \/ hit)
           /\ pc' = IF r = "exc" THEN "raised"
                    ELSE IF hit \/ idx = Len(sub_products) THEN "extend" ELSE "process"
    /\ idx' = idx + 1
    /\ UNCHANGED <<runFrame, products, category_tree, cat, sub,
                   pagingVars, sub_products, tasks, histVars>>

\* One turn of the for loop: _process_single_product on the next listing, the
\* append of its product and the cap check behind it.
SeqStep ==
    /\ pc = "process"
    /\ idx <= Len(sub_products)
    /\ LET l == sub_products[idx]
           r == SingleResult(crawled_ids, l)
           pp == IF r = "ok" THEN Append(processed_products, Product(l))
                 ELSE processed_products
           hit == r = "ok" /\ CapReached(products, pp)
       IN  /\ crawled_ids' = CrawledAfter(crawled_ids, l)
           /\ processed_products' = pp
           /\ done' = (done \/ hit)
           /\ pc' = IF hit \/ idx = Len(sub_products) THEN "extend" ELSE "process"
    /\ idx' = idx + 1
    /\ UNCHANGED <<runFrame, products, category_tree, cat, sub,
                   pagingVars, sub_products, tasks, histVars>>

\* ------------------------------------------- _process_products_concurrent
Running == {"passed", "enriching"}
Finished == {"ok", "none", "exc"}

\* A worker thread takes a queued task and runs it up to the seen check:
\* if product_id in self._crawled_ids: return
TaskCheck(t) ==
    /\ pc \in {"pool", "extend"}
    /\ tasks[t] = "queued"
    /\ tasks' = [tasks EXCEPT ![t] = IF sub_products[t].id \in crawled_ids
                                     THEN "none" ELSE "passed"]
    /\ UNCHANGED <<runFrame, products, crawled_ids, done, pc, category_tree, cat, sub,
                   pagingVars, sub_products, idx, processed_products, histVars>>

\* self._crawled_ids.append(product_id)
TaskAppend(t) ==
    /\ pc \in {"pool", "extend"}
    /\ tasks[t] = "passed"
    /\ crawled_ids' = CrawledAfter(crawled_ids, sub_products[t])
    /\ tasks' = [tasks EXCEPT ![t] = "enriching"]
    /\ UNCHANGED <<runFrame, products, done, pc, category_tree, cat, sub,
                   pagingVars, sub_products, idx, processed_products, histVars>>

\* The rest of _process_single_product: the future gets its result or exception.
TaskFinish(t) ==
    /\ pc \in {"pool", "extend"}
    /\ tasks[t] = "enriching"
    /\ tasks' = [tasks EXCEPT ![t] = SingleResult({}, sub_products[t])]
    /\ UNCHANGED <<runFrame, products, crawled_ids, done, pc, category_tree, cat, sub,
                   pagingVars, sub_products, idx, processed_products, histVars>>

\* executor.shutdown(wait=False, cancel_futures=True): the work items still in
\* the queue are cancelled, the running ones are left to run.
Shutdown(ts) == [i \in 1..Len(ts) |-> IF ts[i] = "queued" THEN "cancelled" ELSE ts[i]]

\* One turn of the as_completed loop, on a finished future not yet yielded.
Collect(t) ==
    /\ pc = "pool"
    /\ tasks[t] \in Finished
    /\ LET r == tasks[t]
           pp == IF r = "ok" THEN Append(processed_products, Product(sub_products[t]))
                 ELSE processed_products
           \* a None result continues before the check; a product and an
           \* exception both reach it
           hit == r # "none" /\ CapReached(products, pp)
           yielded == [tasks EXCEPT ![t] = "yielded"]
       IN  /\ processed_products' = pp
           /\ done' = (done \/ hit)
           /\ tasks' = IF hit THEN Shutdown(yielded) ELSE yielded
           /\ pc' = IF hit \/ \A i \in 1..Len(tasks) : yielded[i] = "yielded"
                    THEN "extend" ELSE "pool"
    /\ UNCHANGED <<runFrame, products, crawled_ids, category_tree, cat, sub,
                   pagingVars, sub_products, idx, histVars>>

\* ---------------------------------------------------------- run, continued
\* run without the two `if self._done: break`: the walk goes on after the cap.
ExtendProductsNoBreak ==
    /\ pc = "extend"
    /\ \A i \in 1..Len(tasks) : tasks[i] \notin Running
    /\ products' = products \o processed_products
    /\ pc' = "walk"
    /\ sub' = sub + 1
    /\ sub_products' = <<>>
    /\ idx' = 1
    /\ processed_products' = <<>>
    /\ tasks' = <<>>
    /\ UNCHANGED <<runFrame, crawled_ids, done, category_tree, cat,
                   pagingVars, histVars>>

\* The processing function returns (the executor's with block first joins the
\* tasks still running) and run does self.products.extend(...), then leaves
\* both loops if self._done.
ExtendProducts ==
    /\ pc = "extend"
    /\ \A i \in 1..Len(tasks) : tasks[i] \notin Running
    /\ products' = products \o processed_products
    /\ pc' = IF done THEN "returned" ELSE "walk"
    /\ sub' = IF done THEN sub ELSE sub + 1
    /\ sub_products' = <<>>
    /\ idx' = 1
    /\ processed_products' = <<>>
    /\ tasks' = <<>>
    /\ UNCHANGED <<runFrame, crawled_ids, done, category_tree, cat,
                   pagingVars, histVars>>

CrawlNext ==
    \/ GetCategories
    \/ GetCategoriesRaises
    \/ NextCategory
    \/ SkipSubCat
    \/ RunReturns
    \/ OpenSession
    \/ PageWindow
    \/ PageRetry
    \/ PageEmpty
    \/ PageRetriesExhausted
    \/ PageServerError
    \/ PageBadResponse
    \/ SeqStep
    \/ \E t \in 1..Len(tasks) : TaskCheck(t)
    \/ \E t \in 1..Len(tasks) : TaskAppend(t)
    \/ \E t \in 1..Len(tasks) : TaskFinish(t)
    \/ \E t \in 1..Len(tasks) : Collect(t)
    \/ ExtendProducts

\* ====================================================== float64 arithmetic
\* data_count / total_items * 100 is computed on float64 values and int()
\* truncates the result.  A positive float64 is kept as its 53 significand
\* bits, most significant first, with the binary exponent of the last bit.
Reverse(s) == [i \in 1..Len(s) |-> s[Len(s) + 1 - i]]

RECURSIVE BitsToInt(_)
BitsToInt(bits) ==
    IF bits = <<>> THEN 0
    ELSE 2 * BitsToInt(SubSeq(bits, 1, Len(bits) - 1)) + bits[Len(bits)]

\* bits + 1; a carry out of the first bit gives one bit more.
RECURSIVE Increment(_)
Increment(bits) ==
    IF bits = <<>> THEN <<1>>
    ELSE IF bits[Len(bits)] = 0 THEN [bits EXCEPT ![Len(bits)] = 1]
    ELSE Append(Increment(SubSeq(bits, 1, Len(bits) - 1)), 0)

\* Round-to-nearest, ties-to-even, of the significand bits (first bit 1, at
\* least MantissaBits of them) whose last bit has exponent e; sticky tells
\* that the exact value has nonzero bits behind those given.
RoundToFloat(bits, e, sticky) ==
    LET extra == Len(bits) - MantissaBits
        keep == SubSeq(bits, 1, MantissaBits)
        half == extra > 0 /\ bits[MantissaBits + 1] = 1
        below == sticky \/ \E i \in (MantissaBits + 2)..Len(bits) : bits[i] = 1
        up == half /\ (below \/ keep[MantissaBits] = 1)
        inc == Increment(keep)
    IN  IF ~up THEN [m |-> keep, e |-> e + extra]
        ELSE IF Len(inc) = MantissaBits THEN [m |-> inc, e |-> e + extra]
        ELSE [m |-> SubSeq(inc, 1, MantissaBits), e |-> e + extra + 1]

\* The first k quotient bits of r / n, for r < 2n.
RECURSIVE QuotientBits(_, _, _)
QuotientBits(r, n, k) ==
    IF k = 0 THEN <<>>
    ELSE IF r >= n THEN <<1>> \o QuotientBits(2 * (r - n), n, k - 1)
    ELSE <<0>> \o QuotientBits(2 * r, n, k - 1)

\* What is left of r after k quotient bits.
RECURSIVE Remainder(_, _, _)
Remainder(r, n, k) ==
    IF k = 0 THEN r
    ELSE IF r >= n THEN Remainder(2 * (r - n), n, k - 1)
    ELSE Remainder(2 * r, n, k - 1)

\* r doubled until it is at least n, and how many times.
RECURSIVE Normalised(_, _, _)
Normalised(r, n, s) ==
    IF r >= n THEN [r |-> r, s |-> s] ELSE Normalised(2 * r, n, s + 1)

\* count / total for 0 < count <= total, as float64.
FloatDiv(count, total) ==
    LET norm == Normalised(count, total, 0)
    IN  RoundToFloat(QuotientBits(norm.r, total, MantissaBits + 1),
                     0 - norm.s - MantissaBits,
                     Remainder(norm.r, total, MantissaBits + 1) # 0)

\* The bits of a number times the small factor f, both least significant
\* bit first; c is the carry.
RECURSIVE TimesSmall(_, _, _)
TimesSmall(bits, f, c) ==
    IF bits = <<>>
    THEN IF c = 0 THEN <<>> ELSE <<c % 2>> \o TimesSmall(<<>>, f, c \div 2)
    ELSE LET v == Head(bits) * f + c
         IN  <<v % 2>> \o TimesSmall(Tail(bits), f, v \div 2)

\* x * 100 as float64.
FloatTimes100(x) ==
    RoundToFloat(Reverse(TimesSmall(Reverse(x.m), 100, 0)), x.e, FALSE)

\* int(x) for a float64 x >= 1/2^MantissaBits: the bits before the binary point.
FloatToInt(x) ==
    IF x.e >= 0 THEN BitsToInt(x.m) * 2 ^ x.e
    ELSE BitsToInt(SubSeq(x.m, 1, MantissaBits + x.e))

\* int(count / total * 100), lines 65 and 68 of _generate_report.
FloatPercent(count, total) ==
    IF count = 0 THEN 0 ELSE FloatToInt(FloatTimes100(FloatDiv(count, total)))

\* FloatPercent for every count of every total up to MaxTotal, computed once.
PercentTable ==
    [total \in 1..MaxTotal |-> [count \in 0..total |-> FloatPercent(count, total)]]

Percent(count, total) == PercentTable[total][count]

\* ========================================================= StorageService
\* What stands for the other fields of a product dict: two records of one
\* product crawled at different times differ in it.
Dates == {"08-00-00 01-03-2024", "09-30-00 02-03-2024"}

Record == [product_id : Ids, modified_date : Dates]

IdSet(ps) == {ps[i].product_id : i \in 1..Len(ps)}

\* session.query(Product).filter(Product.product_id == id).first()
HasRow(st, id) == \E i \in 1..Len(st) : st[i].product_id = id

FirstRow(st, id) == CHOOSE i \in 1..Len(st) :
                        /\ st[i].product_id = id
                        /\ \A j \in 1..(i - 1) : st[j].product_id # id

\* for key, value in product.items(): setattr(row, key, value)
SetAttrs(row, product) ==
    [k \in DOMAIN row \cup DOMAIN product |->
        IF k \in DOMAIN product THEN product[k] ELSE row[k]]

\* get_diff with the two appends exchanged.
GetDiffSwapped(st, batch) ==
    [existing |-> SelectSeq(batch, LAMBDA p : ~HasRow(st, p.product_id)),
     new |-> SelectSeq(batch, LAMBDA p : HasRow(st, p.product_id))]

\* get_diff: existing_products and new_products, each in batch order.
GetDiff(st, batch) ==
    [existing |-> SelectSeq(batch, LAMBDA p : HasRow(st, p.product_id)),
     new |-> SelectSeq(batch, LAMBDA p : ~HasRow(st, p.product_id))]

\* upsert adding a row for every product, without looking for its row.
UpsertOneAlwaysAdds(st, product) == Append(st, product)

\* upsert querying without the filter on product_id: .first() is the table's
\* first row whatever the product.
UpsertOneUnfiltered(st, product) ==
    IF st # <<>> THEN [st EXCEPT ![1] = SetAttrs(@, product)]
    ELSE Append(st, product)

\* One turn of upsert's loop: the row found is updated in place; with no row,
\* setattr on None raises AttributeError and Product(**product) is added
\* (and flushed before the next turn's query).
UpsertOne(st, product) ==
    IF HasRow(st, product.product_id)
    THEN [st EXCEPT ![FirstRow(st, product.product_id)] = SetAttrs(@, product)]
    ELSE Append(st, product)

RECURSIVE Upsert(_, _)
Upsert(st, batch) ==
    IF batch = <<>> THEN st
    ELSE Upsert(UpsertOne(st, Head(batch)), Tail(batch))

\* =============================================================== Pipeline
\* drop_duplicates called without keeping what it returns.
DropDuplicatesDiscarded(batch) == batch

\* df.drop_duplicates(subset=['product_id']): the first record of each
\* identifier is kept, in batch order.
DropDuplicates(batch) ==
    LET keep == {i \in 1..Len(batch) :
                    \A j \in 1..(i - 1) : batch[j].product_id # batch[i].product_id}
        F[i \in 0..Len(batch)] ==
            IF i = 0 THEN <<>>
            ELSE IF i \in keep THEN Append(F[i - 1], batch[i]) ELSE F[i - 1]
    IN  F[Len(batch)]

\* The locales _translate_description_fields asks for, in its order.
Locales == <<"ru", "en">>

DescriptionKey == [ru |-> "product_description_ru", en |-> "product_description_en"]

LongDescriptionKey == [ru |-> "product_long_description_ru",
                       en |-> "product_long_description_en"]

TranslationKeys == {DescriptionKey[l] : l \in Range(Locales)}
                       \cup {LongDescriptionKey[l] : l \in Range(Locales)}

\* What montikea.com does with a request: "page" is a product page with both
\* descriptions, "no_response" a get that raises, "no_text" a page without
\* the description elements.
Answers == {"page", "no_response", "no_text"}

\* The descriptions of a montikea product page, by locale.
MontikeaText == [ru |-> [short |-> "Nastolnaya lampa", long |-> "Daet myagkiy svet"],
                 en |-> [short |-> "Table lamp", long |-> "Gives a soft light"]]

\* _translate_description_to_lang(item, lang): both fields of the locale are
\* set, to the page's texts or, in either except branch, to ''.
TranslateToLang(item, lang, answer) ==
    [key \in DOMAIN item \cup {DescriptionKey[lang], LongDescriptionKey[lang]} |->
        IF key = DescriptionKey[lang]
        THEN IF answer = "page" THEN MontikeaText[lang].short ELSE ""
        ELSE IF key = LongDescriptionKey[lang]
        THEN IF answer = "page" THEN MontikeaText[lang].long ELSE ""
        ELSE item[key]]

\* _translate_description_fields giving up at the first locale that fails.
TranslateFieldsStopsOnFailure(item, answers) ==
    IF answers[Locales[1]] # "page"
    THEN TranslateToLang(item, Locales[1], answers[Locales[1]])
    ELSE TranslateToLang(TranslateToLang(item, Locales[1], answers[Locales[1]]),
                         Locales[2], answers[Locales[2]])

\* _translate_description_fields(item); answers[lang] is what montikea does
\* with the request for this product in locale lang.
TranslateFields(item, answers) ==
    TranslateToLang(TranslateToLang(item, Locales[1], answers[Locales[1]]),
                    Locales[2], answers[Locales[2]])

\* The requests to montikea the loop over new_items makes, in order.
RECURSIVE TranslationCalls(_)
TranslationCalls(new_items) ==
    IF new_items = <<>> THEN <<>>
    ELSE <<<<Head(new_items).product_id, Locales[1]>>,
           <<Head(new_items).product_id, Locales[2]>>>>
             \o TranslationCalls(Tail(new_items))

\* The columns of pd.DataFrame(records): every key of every record.
Columns(records) == UNION {DOMAIN records[i] : i \in 1..Len(records)}

\* What fillna(0) puts in a cell: 0, written as the text a String column
\* keeps for it.
NaFill == "0"

\* pd.DataFrame(records).fillna(0).to_dict(orient='records'): a record has
\* every column of the frame, and 0 in the columns it had no key for.
FillNa(records) ==
    [i \in 1..Len(records) |->
        [key \in Columns(records) |->
            IF key \in DOMAIN records[i] THEN records[i][key] ELSE NaFill]]

\* (df.notnull()) & (df.applymap(lambda x: x != '')) for one cell: the record
\* has the key, and its value is not ''.
Filled(record, key) ==
    /\ key \in DOMAIN record
    /\ key \in TranslationKeys => record[key] # ""

\* _generate_report(items): the number of records and, for every column, the
\* percentage of records with the cell filled.
GenerateReport(records) ==
    [key \in Columns(records) \cup {"total_products"} |->
        IF key = "total_products" THEN Len(records)
        ELSE Percent(Cardinality({i \in 1..Len(records) : Filled(records[i], key)}),
                     Len(records))]

\* get_diff raising at the record after the first k, with what it had
\* classified kept and the records left taken as existing.
DiffKeepsClassified(st, unique, diff_raises, k) ==
    IF diff_raises
    THEN [existing |-> GetDiff(st, SubSeq(unique, 1, k)).existing
                          \o SubSeq(unique, k + 1, Len(unique)),
          new |-> GetDiff(st, SubSeq(unique, 1, k)).new]
    ELSE GetDiff(st, unique)

\* Lines 33-39 of process_items: get_diff's two lists, or, when get_diff
\* raises after classifying k records (its lists go with its frame), every
\* record as existing and none as new.
DiffOrAllExisting(st, unique, diff_raises, k) ==
    IF diff_raises THEN [existing |-> unique, new |-> <<>>]
    ELSE GetDiff(st, unique)

\* process_items raising KeyError for a batch without records, whose frame has
\* no product_id column.
ProcessItemsEmptyRaises(st, batch, diff_raises, k, answers) ==
    IF batch = <<>> THEN [op |-> "process_items", raised |-> TRUE]
    ELSE LET unique == DropDuplicates(batch)
             diff == DiffOrAllExisting(st, unique, diff_raises, k)
             translated == [i \in 1..Len(diff.new) |->
                               TranslateFields(diff.new[i],
                                               answers[diff.new[i].product_id])]
         IN  [op |-> "process_items", raised |-> FALSE,
              diff_raised |-> diff_raises, classified |-> k,
              existing |-> diff.existing, new |-> translated,
              calls |-> TranslationCalls(diff.new),
              answers |-> answers,
              report |-> GenerateReport(diff.existing \o translated),
              out |-> FillNa(diff.existing \o translated)]

\* process_items on a batch: the records without the repeats are split by
\* get_diff, or all taken as existing when get_diff raises, the new ones are
\* translated, the report is made of existing + new and the frame is returned
\* with its missing cells filled.  No step of it raises: drop_duplicates gives
\* an empty frame back as it is, the loops over no record do nothing, and an
\* empty frame gives a report of total_products alone.
ProcessItems(st, batch, diff_raises, k, answers) ==
    LET unique == DropDuplicates(batch)
        diff == DiffOrAllExisting(st, unique, diff_raises, k)
        translated == [i \in 1..Len(diff.new) |->
                          TranslateFields(diff.new[i],
                                          answers[diff.new[i].product_id])]
    IN  [op |-> "process_items", raised |-> FALSE,
         diff_raised |-> diff_raises, classified |-> k,
         existing |-> diff.existing, new |-> translated,
         calls |-> TranslationCalls(diff.new),
         answers |-> answers,
         report |-> GenerateReport(diff.existing \o translated),
         out |-> FillNa(diff.existing \o translated)]

NoCall == [op |-> "none"]

StoreInit ==
    /\ store = <<>>
    /\ items = <<>>
    /\ ret = NoCall
    /\ upserted = {}

\* The crawler appends one more product to the batch (self.products).
AddItem ==
    /\ Len(items) < MaxBatch
    /\ \E r \in Record : items' = Append(items, r)
    /\ ret' = NoCall
    /\ UNCHANGED <<store, upserted, crawlVars, reportVars, enrichVars, loopVars>>

\* A new cycle starts with an empty batch.
NewBatch ==
    /\ items # <<>>
    /\ items' = <<>>
    /\ ret' = NoCall
    /\ UNCHANGED <<store, upserted, crawlVars, reportVars, enrichVars, loopVars>>

\* StorageService.get_diff(items) returns.
CallGetDiff ==
    /\ ret' = [op |-> "get_diff", existing |-> GetDiff(store, items).existing,
                new |-> GetDiff(store, items).new]
    /\ UNCHANGED <<store, items, upserted, crawlVars, reportVars, enrichVars, loopVars>>

\* Pipeline.process_items(items): get_diff returns, or raises after it has
\* classified k records; montikea answers each request in some way.
CallProcessItems ==
    /\ \E diff_raises \in BOOLEAN, k \in 0..Len(items) :
          /\ k = IF diff_raises THEN k ELSE Len(DropDuplicates(items))
          /\ diff_raises => k < Len(DropDuplicates(items))
          /\ \E answers \in [IdSet(DiffOrAllExisting(store, DropDuplicates(items),
                                                      diff_raises, k).new)
                               -> [Range(Locales) -> Answers]] :
                ret' = ProcessItems(store, items, diff_raises, k, answers)
    /\ UNCHANGED <<store, items, upserted, crawlVars, reportVars, enrichVars, loopVars>>

\* Pipeline.save_items(processed_products), as run.py calls it with what
\* process_items returned.
CallSaveItems ==
    /\ ret.op = "process_items"
    /\ ~ret.raised
    /\ store' = Upsert(store, ret.out)
    /\ upserted' = upserted \cup IdSet(ret.out)
    /\ ret' = [op |-> "save_items"]
    /\ UNCHANGED <<items, crawlVars, reportVars, enrichVars, loopVars>>

\* StorageService.upsert(items).
CallUpsert ==
    /\ store' = Upsert(store, items)
    /\ upserted' = upserted \cup IdSet(items)
    /\ ret' = [op |-> "upsert",
               \* calls in a row with this batch (2: two or more)
               times |-> IF ret.op = "upsert" THEN 2 ELSE 1,
               \* the identifiers of the batch that had a row before the call
               had_row |-> IdSet(items) \cap IdSet(store)]
    /\ UNCHANGED <<items, crawlVars, reportVars, enrichVars, loopVars>>

StoreNext ==
    \/ AddItem
    \/ NewBatch
    \/ CallGetDiff
    \/ CallProcessItems
    \/ CallSaveItems
    \/ CallUpsert

\* ========================================================= specifications
\* Nothing has called _generate_report, _process_single_product or run.py.
ReportIdle == report_items = <<>> /\ report = <<>>

EnrichIdle == page = <<>> /\ single_pc = "idle" /\ fields = <<>> /\ single_ret = "idle"

LoopIdle == loop_pc = "idle" /\ captured = 0 /\ slept = 0

Init == CrawlInit /\ StoreInit /\ ReportIdle /\ EnrichIdle /\ LoopIdle

Next == CrawlNext

Spec == Init /\ [][Next]_vars

\* The run under a scheduler that lets no enabled step wait for ever: every
\* request returns or fails, every worker thread of the pool gets to run and
\* the main thread goes on whenever it can.
SpecLive == Spec /\ WF_vars(Next)

InitStore ==
    /\ StoreInit /\ CrawlInit /\ num_products = 0 /\ ~concurrent
    /\ ReportIdle /\ EnrichIdle /\ LoopIdle

NextStore == StoreNext

SpecStore == InitStore /\ [][NextStore]_vars

\* ------------------------------------------- _generate_report on its own
\* The column of the reports below: a key some records have a text for,
\* some '' and some no value.
ReportKey == "product_description_en"

\* A batch of total records of which the first filled have a text under
\* ReportKey, the next blank have '' and the others no such key.
ReportBatch(total, filled, blank) ==
    [i \in 1..total |->
        IF i <= filled THEN [product_id |-> i, product_description_en |-> "Table lamp"]
        ELSE IF i <= filled + blank THEN [product_id |-> i, product_description_en |-> ""]
        ELSE [product_id |-> i]]

InitReport ==
    /\ CrawlInit /\ num_products = 0 /\ ~concurrent
    /\ StoreInit /\ EnrichIdle /\ LoopIdle
    /\ \E total \in 1..MaxTotal : \E filled \in 0..total : \E blank \in 0..(total - filled) :
          report_items = ReportBatch(total, filled, blank)
    /\ report = <<>>

\* self._generate_report(items) returns.
CallGenerateReport ==
    /\ DOMAIN report = {}
    /\ report' = GenerateReport(report_items)
    /\ UNCHANGED <<report_items, crawlVars, storeVars, enrichVars, loopVars>>

NextReport == CallGenerateReport

SpecReport == InitReport /\ [][NextReport]_vars

\* ------------------------------------ one call of _process_single_product
\* What the pages behind one listing hold:
\*   hr       the Croatian product page: with a price, without the price
\*            div, or a request that raises
\*   detail   the product page: fetched, or a request that raises
\*   details_container, material_header, media_grid
\*            whether the fetched page has the element
\*   packages the package containers of the page: none, with identifier and
\*            measurements, or with an element missing or not a number
\*   tags     the answer of the category tags endpoint: status 200 with
\*            rangeIds, another status, a body that is not that JSON, or a
\*            request that raises
DetailPages ==
    [id : Ids,
     hr : {"price", "no_price", "no_response"},
     detail : {"page", "no_response"},
     details_container : BOOLEAN,
     material_header : BOOLEAN,
     media_grid : BOOLEAN,
     packages : {"none", "measured", "malformed"},
     tags : {"range_ids", "non200", "malformed", "no_response"}]

\* breadcrumb = [cat['key'] for cat in prod['categoryPath']]
Breadcrumb == "breadcrumb"

\* IKEAClient.get_category_tags(product_id): the rangeIds of a 200 answer,
\* None for another status; requests.get, response.json() and ['rangeIds']
\* raise on a request that fails and on a body that is not the expected JSON.
GetCategoryTags(answer) ==
    CASE answer = "range_ids" -> "rangeIds"
      [] answer = "non200" -> "None"
      [] answer = "malformed" -> "raise"
      [] answer = "no_response" -> "raise"

\* The locals of _process_single_product with one more assigned.
WithField(locals, key, value) ==
    [k \in DOMAIN locals \cup {key} |-> IF k = key THEN value ELSE locals[k]]

enrichFrame == <<num_products, concurrent, products, done, pc, category_tree, cat, sub,
                 pagingVars, poolVars, histVars, storeVars, reportVars, loopVars>>

InitEnrich ==
    /\ num_products = 0 /\ concurrent = FALSE
    /\ products = <<>> /\ done = FALSE /\ pc = "idle" /\ category_tree = <<>>
    /\ cat = 1 /\ sub = 1
    /\ start = 0 /\ end = 0 /\ retries = 0 /\ all_products = <<>>
    /\ sub_products = <<>> /\ idx = 1 /\ processed_products = <<>> /\ tasks = <<>>
    /\ failed_subs = {} /\ late_fail = FALSE /\ listed_subs = {} /\ ok_ids = {}
    /\ seq_crawled = {} /\ seq_ids = {} /\ failing_ids = {}
    /\ server_error_subs = {} /\ windows = <<>>
    /\ crawled_ids \in SUBSET Ids
    /\ StoreInit /\ ReportIdle /\ LoopIdle
    /\ page \in DetailPages
    /\ single_pc = "check"
    /\ fields = <<>>
    /\ single_ret = "running"

\* A step of the call that ends it: with None, with the product, or with an
\* exception raised at the step single_pc names.
Ends(how) ==
    /\ single_ret' = how
    /\ UNCHANGED <<page, single_pc, fields, enrichFrame>>

\* A step that assigns a local and goes on at the next place.
Assigns(key, value, next) ==
    /\ fields' = WithField(fields, key, value)
    /\ single_pc' = next
    /\ UNCHANGED <<page, single_ret, crawled_ids, enrichFrame>>

\* Lines 28-33: the seen check and the append to _crawled_ids.
SingleCheck ==
    /\ single_ret = "running"
    /\ single_pc = "check"
    /\ IF page.id \in crawled_ids
       THEN Ends("none") /\ UNCHANGED crawled_ids
       ELSE /\ crawled_ids' = crawled_ids \cup {page.id}
            /\ fields' = WithField(fields, "product_id", page.id)
            /\ single_pc' = "price_hr"
            /\ UNCHANGED <<page, single_ret, enrichFrame>>

\* Lines 35-72: the fields of the listing itself and the Croatian price,
\* None when its page or its price div cannot be had.
SinglePriceHr ==
    /\ single_ret = "running"
    /\ single_pc = "price_hr"
    /\ Assigns("price_hr", IF page.hr = "price" THEN "12.99" ELSE "None", "fetch")

\* Lines 74-79: the product page is fetched, or None is returned.
SingleFetch ==
    /\ single_ret = "running"
    /\ single_pc = "fetch"
    /\ IF page.detail = "no_response"
       THEN Ends("none") /\ UNCHANGED crawled_ids
       ELSE /\ single_pc' = "long_description"
            /\ UNCHANGED <<page, fields, single_ret, crawled_ids, enrichFrame>>

\* Lines 81-85: soup.find gives None for a page without the details
\* container, and div.find_all raises AttributeError.
SingleLongDescription ==
    /\ single_ret = "running"
    /\ single_pc = "long_description"
    /\ IF page.details_container
       THEN Assigns("product_long_description", "Lampa daje meko svetlo", "materials")
       ELSE Ends("raised") /\ UNCHANGED crawled_ids

\* Lines 87-101: without the material header span.findNext raises inside the
\* try, and materials is ''.
SingleMaterials ==
    /\ single_ret = "running"
    /\ single_pc = "materials"
    /\ Assigns("materials", IF page.material_header THEN "Osnova: Celik" ELSE "", "images")

\* Lines 103-106: divs[0] raises IndexError for a page without a media grid.
SingleImages ==
    /\ single_ret = "running"
    /\ single_pc = "images"
    /\ IF page.media_grid
       THEN Assigns("other_image_urls", "[urls]", "packages")
       ELSE Ends("raised") /\ UNCHANGED crawled_ids

\* Lines 108-158: no package container leaves num_of_packages None; a
\* container without the identifier span, without the measurement container
\* or with a measurement that is no number raises.
SinglePackages ==
    /\ single_ret = "running"
    /\ single_pc = "packages"
    /\ CASE page.packages = "none" -> Assigns("num_of_packages", "None", "category_tags")
         [] page.packages = "measured" -> Assigns("num_of_packages", "2", "category_tags")
         [] page.packages = "malformed" -> Ends("raised") /\ UNCHANGED crawled_ids

\* Lines 160-165: category_tags is what get_category_tags returns, or the
\* breadcrumb when that is None; an exception of get_category_tags is not
\* caught.
SingleCategoryTags ==
    /\ single_ret = "running"
    /\ single_pc = "category_tags"
    /\ CASE GetCategoryTags(page.tags) = "raise" -> Ends("raised") /\ UNCHANGED crawled_ids
         [] GetCategoryTags(page.tags) = "None" -> Assigns("category_tags", Breadcrumb, "return")
         [] OTHER -> Assigns("category_tags", GetCategoryTags(page.tags), "return")

\* Lines 167-192: the product dict is built and returned.
SingleReturn ==
    /\ single_ret = "running"
    /\ single_pc = "return"
    /\ Ends("product") /\ UNCHANGED crawled_ids

NextEnrich ==
    \/ SingleCheck
    \/ SinglePriceHr
    \/ SingleFetch
    \/ SingleLongDescription
    \/ SingleMaterials
    \/ SingleImages
    \/ SinglePackages
    \/ SingleCategoryTags
    \/ SingleReturn

SpecEnrich == InitEnrich /\ [][NextEnrich]_vars

\* ------------------------------------------------------ the loop of run.py
\* The places of a cycle inside the try block: the constructors (lines
\* 18-19), crawler.run() (20), pipe.process_items (21), pipe.save_items (22)
\* and the report event (23-28).
Body == {"new", "crawl", "process", "save", "report"}

loopFrame == <<num_products, concurrent, pc, category_tree, cat, sub,
               pagingVars, poolVars, histVars, storeVars, reportVars, enrichVars>>

InitLoop ==
    /\ CrawlInit /\ num_products = 0 /\ ~concurrent
    /\ StoreInit /\ ReportIdle /\ EnrichIdle
    /\ loop_pc = "new"
    /\ captured = 0
    /\ slept = 0

\* crawler = IKEACrawler(); pipe = Pipeline()
NewCycle ==
    /\ loop_pc = "new"
    /\ products' = <<>>
    /\ crawled_ids' = {}
    /\ done' = FALSE
    /\ loop_pc' = "crawl"
    /\ UNCHANGED <<captured, slept, loopFrame>>

\* crawler.run() returns, leaving some products and seen identifiers.
CrawlReturns ==
    /\ loop_pc = "crawl"
    /\ \E ps \in SeqsUpTo(Ids, MaxBatch), seen \in SUBSET Ids :
          /\ Range(ps) \subseteq seen
          /\ products' = ps
          /\ crawled_ids' = seen
    /\ loop_pc' = "process"
    /\ UNCHANGED <<done, captured, slept, loopFrame>>

\* pipe.process_items(crawler.products) returns.
ProcessReturns ==
    /\ loop_pc = "process"
    /\ loop_pc' = "save"
    /\ UNCHANGED <<products, crawled_ids, done, captured, slept, loopFrame>>

\* pipe.save_items(processed_products) returns.
SaveReturns ==
    /\ loop_pc = "save"
    /\ loop_pc' = "report"
    /\ UNCHANGED <<products, crawled_ids, done, captured, slept, loopFrame>>

\* The report event is sent; the while loop starts the next cycle at once.
ReportReturns ==
    /\ loop_pc = "report"
    /\ loop_pc' = "new"
    /\ UNCHANGED <<products, crawled_ids, done, captured, slept, loopFrame>>

\* The loop with no except clause: the exception ends the process.
StageRaisesUncaught ==
    /\ loop_pc \in Body
    /\ captured < MaxRaises
    /\ loop_pc' = "ended"
    /\ UNCHANGED <<products, crawled_ids, done, captured, slept, loopFrame>>

\* Something inside the try block raises an Exception: control goes to the
\* except clause.
StageRaises ==
    /\ loop_pc \in Body
    /\ captured < MaxRaises
    /\ loop_pc' = "except"
    /\ UNCHANGED <<products, crawled_ids, done, captured, slept, loopFrame>>

\* sentry_sdk.capture_exception(e)
LoopCapture ==
    /\ loop_pc = "except"
    /\ captured' = captured + 1
    /\ loop_pc' = "sleep"
    /\ UNCHANGED <<products, crawled_ids, done, slept, loopFrame>>

\* time.sleep(60*60) returns and the while loop starts the next cycle.
LoopCooldown ==
    /\ loop_pc = "sleep"
    /\ slept' = slept + 1
    /\ loop_pc' = "new"
    /\ UNCHANGED <<products, crawled_ids, done, captured, loopFrame>>

NextLoop ==
    \/ NewCycle
    \/ CrawlReturns
    \/ ProcessReturns
    \/ SaveReturns
    \/ ReportReturns
    \/ StageRaises
    \/ LoopCapture
    \/ LoopCooldown

SpecLoop == InitLoop /\ [][NextLoop]_vars

\* ============================ properties of the pipeline and of the store
\* C6: for a non-empty batch, with or without repeated identifiers, and
\* whether get_diff returns or raises, process_items returns exactly one
\* record for each identifier of the batch and none for any other identifier.
OneRecordPerIdentifier ==
    (ret.op = "process_items" /\ items # <<>>) =>
        /\ ~ret.raised
        /\ \A i, j \in 1..Len(ret.out) :
              i # j => ret.out[i].product_id # ret.out[j].product_id
        /\ IdSet(ret.out) = IdSet(items)

\* process_items returned for a batch that repeats an identifier while
\* get_diff raised.
OneRecordPerIdentifierWitness ==
    /\ ret.op = "process_items"
    /\ ~ret.raised
    /\ ret.diff_raised
    /\ \E i, j \in 1..Len(items) : i # j /\ items[i].product_id = items[j].product_id

\* C7: for a batch of unique identifiers, get_diff puts every record in
\* exactly one of existing and new, in existing exactly when the store has a
\* row for its identifier; the identifier sets of the two are disjoint and
\* together the batch's.
DiffPartitionsBatch ==
    (ret.op = "get_diff" /\ Cardinality(IdSet(items)) = Len(items)) =>
        /\ \A i \in 1..Len(items) :
              /\ (items[i] \in Range(ret.existing)) # (items[i] \in Range(ret.new))
              /\ (items[i] \in Range(ret.existing)) = HasRow(store, items[i].product_id)
        /\ Len(ret.existing) + Len(ret.new) = Len(items)
        /\ IdSet(ret.existing) \cap IdSet(ret.new) = {}
        /\ IdSet(ret.existing) \cup IdSet(ret.new) = IdSet(items)

\* get_diff returned with a record on each side.
DiffPartitionsBatchWitness ==
    /\ ret.op = "get_diff"
    /\ Cardinality(IdSet(items)) = Len(items)
    /\ ret.existing # <<>>
    /\ ret.new # <<>>

\* C8: a second upsert of the batch that was just upserted leaves the store
\* as the first one left it.
UpsertIdempotent ==
    [][(ret.op = "upsert" /\ ret'.op = "upsert" /\ items' = items) => store' = store]_vars

\* The same batch of two records or more was upserted twice in a row.
UpsertIdempotentWitness ==
    /\ ret.op = "upsert"
    /\ ret.times = 2
    /\ Len(items) >= 2

\* C9: after any upserts the store has exactly one row for each identifier
\* upserted so far; an upsert updates in place the rows of its batch's
\* identifiers, adds a row for each identifier without one and changes no
\* other row.
OneRowPerIdentifier ==
    /\ [](/\ \A i, j \in 1..Len(store) : i # j => store[i].product_id # store[j].product_id
          /\ IdSet(store) = upserted)
    /\ [][ret'.op = "upsert" =>
            /\ Len(store') >= Len(store)
            /\ \A i \in 1..Len(store) :
                  /\ store'[i].product_id = store[i].product_id
                  /\ store[i].product_id \notin IdSet(items) => store'[i] = store[i]
                  /\ store[i].product_id \in IdSet(items) =>
                        \E k \in 1..Len(items) : store'[i] = SetAttrs(store[i], items[k])
            /\ \A i \in (Len(store) + 1)..Len(store') :
                  /\ store'[i] \in Range(items)
                  /\ store'[i].product_id \notin IdSet(store)]_vars

\* An upsert whose batch had a row for one identifier and none for another.
OneRowPerIdentifierWitness ==
    /\ ret.op = "upsert"
    /\ ret.had_row # {}
    /\ IdSet(items) \ ret.had_row # {}
    /\ Len(store) >= 2

\* C11: when get_diff raises, at the first record or after it classified
\* some, process_items does not raise, takes every record of the deduplicated
\* batch as existing and none as new, makes no translation request, returns
\* a batch with those records and sets a report counting them.
DiffFailureRoutesToExisting ==
    (ret.op = "process_items" /\ items # <<>>) =>
        /\ ~ret.raised
        /\ ret.diff_raised =>
              /\ ret.existing = DropDuplicates(items)
              /\ ret.new = <<>>
              /\ ret.calls = <<>>
              /\ Len(ret.out) = Len(ret.existing)
              /\ \A i \in 1..Len(ret.out) :
                    ret.out[i].product_id = ret.existing[i].product_id
              /\ ret.report.total_products = Len(ret.existing)

\* get_diff raised after it had classified a record without a row as new.
DiffFailureWitness ==
    /\ ret.op = "process_items"
    /\ items # <<>>
    /\ ret.diff_raised
    /\ ret.classified >= 1
    /\ ~HasRow(store, items[1].product_id)
    /\ Len(ret.out) >= 2

\* C12: process_items asks montikea for no identifier that has a row in the
\* store; when get_diff returns, every record without a row gets exactly one
\* request for 'ru' and one for 'en', and each locale's two fields are the
\* page's texts or, when that locale's request or parse fails, '' -- whatever
\* happened to the other locale and to the other records.  Existing records
\* get no translation field.
TranslationOnlyForNew ==
    (ret.op = "process_items" /\ items # <<>>) =>
        /\ \A n \in 1..Len(ret.calls) : ~HasRow(store, ret.calls[n][1])
        /\ \A i \in 1..Len(ret.existing) :
              DOMAIN ret.existing[i] \cap TranslationKeys = {}
        /\ ~ret.diff_raised =>
              IdSet(ret.new) = IdSet(items) \ IdSet(store)
        /\ \A i \in 1..Len(ret.new) : \A lang \in {"ru", "en"} :
              LET id == ret.new[i].product_id
                  failed == ret.answers[id][lang] # "page"
              IN  /\ Cardinality({n \in 1..Len(ret.calls) :
                                     ret.calls[n] = <<id, lang>>}) = 1
                  /\ DescriptionKey[lang] \in DOMAIN ret.new[i]
                  /\ LongDescriptionKey[lang] \in DOMAIN ret.new[i]
                  /\ ret.new[i][DescriptionKey[lang]] =
                        IF failed THEN "" ELSE MontikeaText[lang].short
                  /\ ret.new[i][LongDescriptionKey[lang]] =
                        IF failed THEN "" ELSE MontikeaText[lang].long

\* A batch with an existing and a new record, the new one's 'ru' request
\* failing and its 'en' request answered.
TranslationOnlyForNewWitness ==
    /\ ret.op = "process_items"
    /\ items # <<>>
    /\ ret.existing # <<>>
    /\ HasRow(store, ret.existing[1].product_id)
    /\ ret.new # <<>>
    /\ ret.answers[ret.new[1].product_id]["ru"] = "no_response"
    /\ ret.answers[ret.new[1].product_id]["en"] = "page"

\* C16: of the records of the batch with one identifier, process_items keeps
\* the one that comes last in the batch.
LastSeenWins ==
    (ret.op = "process_items" /\ items # <<>>) =>
        \A i \in 1..Len(items) :
            (\A j \in (i + 1)..Len(items) : items[j].product_id # items[i].product_id)
                => \E r \in Range(ret.existing \o ret.new) :
                      /\ r.product_id = items[i].product_id
                      /\ r.modified_date = items[i].modified_date

\* C15: the report of a batch of n >= 1 records has total_products = n and,
\* for every column, the percentage of the records that have a value other
\* than '' in it, truncated to an integer.
ReportIsTruncatedPercentage ==
    DOMAIN report # {} =>
        /\ report.total_products = Len(report_items)
        /\ \A key \in Columns(report_items) :
              /\ key \in DOMAIN report
              /\ report[key] =
                    (100 * Cardinality({i \in 1..Len(report_items) :
                                           /\ key \in DOMAIN report_items[i]
                                           /\ key = ReportKey => report_items[i][key] # ""}))
                        \div Len(report_items)

\* The value of a row's column: a column no upsert has set is NULL.
Cell(st, id, key) ==
    LET row == st[FirstRow(st, id)]
    IN  IF key \in DOMAIN row THEN row[key] ELSE "NULL"

\* C20: process_items followed by save_items leaves the four translation
\* columns of every row whose identifier was classified as existing as they
\* were.
StoredTranslationsKept ==
    [][(ret.op = "process_items" /\ ret'.op = "save_items") =>
          \A id \in IdSet(ret.existing) \cap IdSet(store) : \A key \in TranslationKeys :
              Cell(store', id, key) = Cell(store, id, key)]_vars

\* C26: process_items on a batch without records returns (it does not
\* raise) an empty batch and a report whose only entry is a total of 0, and
\* save_items on what it returned leaves the table as it was.
EmptyBatchProcessed ==
    /\ []((ret.op = "process_items" /\ items = <<>>) =>
            /\ ~ret.raised
            /\ ret.out = <<>>
            /\ ret.report = [key \in {"total_products"} |-> 0])
    /\ [][(ret.op = "process_items" /\ items = <<>> /\ ret'.op = "save_items") =>
            store' = store]_vars

\* save_items returned for an empty batch, with rows of earlier batches in
\* the table.
EmptyBatchWitness ==
    /\ ret.op = "save_items"
    /\ items = <<>>
    /\ store # <<>>

\* ================================================== properties of the run
\* The batch so far: self.products and the current sub-category's list.
Accumulated == products \o processed_products

NoRepeat(s) == \A i, j \in 1..Len(s) : i # j => s[i] # s[j]

\* The sub-categories of the tree that run has to list, as <<category, place>>.
ToWalk == {q \in (1..MaxCats) \X (1..MaxSubCats) :
              /\ q[1] <= Len(category_tree)
              /\ q[2] <= Len(category_tree[q[1]])
              /\ category_tree[q[1]][q[2]] # NoProducts}

\* q comes before the walk's current place in listing order.
Passed(q) == q[1] < cat \/ (q[1] = cat /\ q[2] < sub)

Earlier(q, r) == q[1] < r[1] \/ (q[1] = r[1] /\ q[2] < r[2])

\* The ghost of the sequential run follows the sequential run itself.
SeqFoldAgrees ==
    (~concurrent /\ num_products = 0 /\ pc \in {"walk", "paging", "returned"}) =>
        (Range(products) = seq_ids /\ crawled_ids = seq_crawled)

\* C1: with a cap N >= 1, in both modes and under every completion order, the
\* accumulated results (self.products plus the current sub-category's
\* processed list) never number more than N, so neither does the batch run
\* leaves behind.
CapRespected ==
    num_products # 0 => Len(Accumulated) <= num_products

\* A concurrent run that was stopped by its cap with more eligible products
\* in the source than the cap.
CapRespectedWitness ==
    /\ pc = "returned"
    /\ concurrent
    /\ done
    /\ num_products # 0
    /\ Len(products) = num_products
    /\ Cardinality(ok_ids) > num_products

\* C2: with a cap N >= 1 and at least N enrichable products in the
\* sub-categories run listed, run ends capped with exactly N products.
CapReachedWhenEnough ==
    (pc = "returned" /\ num_products # 0 /\ Cardinality(ok_ids) >= num_products) =>
        (done /\ Len(products) = num_products)

\* C3: in concurrent mode at most one of the tasks whose listings share an
\* identifier passes the seen check, and the accumulated batch never holds two
\* products with the same identifier.
SeenCheckExclusive ==
    concurrent =>
        /\ \A i, j \in 1..Len(tasks) :
              (i # j /\ sub_products[i].id = sub_products[j].id) =>
                  ~(tasks[i] \in Running /\ tasks[j] \in Running)
        /\ NoRepeat(Accumulated)

\* C4: a call of _process_single_product that fails (no detail page, or an
\* exception) leaves the seen set as it was before the call.
FailureLeavesSeenSet ==
    [][(/\ pc = "process"
        /\ idx <= Len(sub_products)
        /\ sub_products[idx].id \notin crawled_ids
        /\ sub_products[idx].outcome # "ok") => crawled_ids' = crawled_ids]_vars

\* C5: without a cap, a run ends with the same set of product identifiers as
\* the sequential run over the same listings with the same outcomes, in
\* whichever order the concurrent tasks run and complete.
SameIdsAsSequential ==
    (pc = "returned" /\ num_products = 0) => Range(products) = seq_ids

\* C10: a sub-category whose listing request fails, on its first page or a
\* later one, is skipped and nothing else: no exception leaves run, none of its
\* listings is handed to enrichment, and the walk goes on, leaving out no
\* sub-category behind it; a sequential run without a cap ends with the products
\* of the sub-categories that were listed.
ListingFailureSkipsSubCat ==
    /\ pc = "raised" => (failed_subs = {} /\ listed_subs = {})
    /\ failed_subs \cap listed_subs = {}
    /\ pc \in {"process", "pool", "extend"} => <<cat, sub>> \notin failed_subs
    /\ pc # "idle" =>
          \A q \in ToWalk : Passed(q) => q \in failed_subs \cup listed_subs
    /\ (pc = "returned" /\ ~done) => ToWalk = failed_subs \cup listed_subs
    /\ (pc = "returned" /\ ~concurrent /\ num_products = 0) => Range(products) = seq_ids

\* A run that returned after a listing failed behind a fetched page and a later
\* sub-category gave the batch its products.
ListingFailureWitness ==
    /\ pc = "returned"
    /\ late_fail
    /\ products # <<>>
    /\ \E f \in failed_subs, l \in listed_subs : Earlier(f, l)

\* C13: once the cap is reached the accumulated results number exactly the
\* cap and stay as they are: the walk stays at its sub-category, no listing
\* request is made, no result of a task still queued, running or not yet
\* collected is added, and run returns.
CappedRunStops ==
    /\ [](done => /\ Len(Accumulated) = num_products
                  /\ pc \in {"extend", "returned"})
    /\ [][done => /\ Accumulated' = Accumulated
                  /\ cat' = cat /\ sub' = sub
                  /\ UNCHANGED pagingVars
                  /\ done']_vars

\* The cap was reached in a concurrent run while a task that had a product
\* was not collected yet and a further sub-category was still to be walked.
CappedRunStopsWitness ==
    /\ done
    /\ concurrent
    /\ pc = "extend"
    /\ \E t \in 1..Len(tasks) : tasks[t] \in {"ok", "enriching"}
    /\ \E q \in ToWalk : Earlier(<<cat, sub>>, q)

\* C21: when the cap is reached in concurrent mode no task is left in the
\* queue, and _process_products_concurrent can return to run whatever the
\* tasks still running do: its return waits for none of them.
CapReturnsWithoutWaiting ==
    (concurrent /\ done /\ pc = "extend") =>
        /\ \A t \in 1..Len(tasks) : tasks[t] # "queued"
        /\ ENABLED ExtendProducts

\* What extending a list with each of the windows ws in turn gives.
RECURSIVE Flatten(_)
Flatten(ws) == IF ws = <<>> THEN <<>> ELSE Head(ws) \o Flatten(Tail(ws))

\* get_products_in_cat hands its list back to run, which starts processing it.
ListingReturned == pc = "paging" /\ pc' \in {"process", "pool", "extend"}

\* C22: while get_products_in_cat pages, its list is the concatenation in
\* request order of the windows returned so far, none of them empty (an empty
\* window ends the requests); what it returns is that concatenation; and
\* every call ends.
PagingConcatenatesWindows ==
    /\ [](pc = "paging" =>
            /\ all_products = Flatten(windows)
            /\ \A i \in 1..Len(windows) : windows[i] # <<>>)
    /\ [][ListingReturned => sub_products' = Flatten(windows)]_vars
    /\ (pc = "paging") ~> (pc # "paging")

\* Two windows were returned with different listings and the next request is
\* about to be answered.
PagingConcatenatesWitness ==
    /\ pc = "paging"
    /\ Len(windows) = 2
    /\ windows[1] # windows[2]
    /\ all_products = windows[1] \o windows[2]

\* C23: every request of get_products_in_cat asks for a window of the size of
\* the first one (end - start = 1000), and each window starts at the offset
\* where the one before it ended.
WindowsTileOffsets ==
    /\ [](pc = "paging" => end - start = PageEnd)
    /\ [][(pc = "paging" /\ pc' = "paging" /\ start' # start) => start' = end]_vars

\* C24: a listing request is sent again at most 5 times, and a sub-category
\* is given up for a 5xx answer only when the 5 retries of that request are
\* used up.
ServerErrorsRetried ==
    /\ [](retries <= RetryTotal)
    /\ [][server_error_subs' # server_error_subs => retries = RetryTotal]_vars

\* The walk's place in the tree, and the place that follows it in listing
\* order: the next sub-category of the category, or the first of the next one.
Place == <<cat, sub>>

NextPlace ==
    IF cat <= Len(category_tree) /\ sub > Len(category_tree[cat])
    THEN <<cat + 1, 1>> ELSE <<cat, sub + 1>>

\* C25: once the category tree is fetched, a run in which every request
\* returns or fails and every task gets to run ends, either capped or with the
\* tree walked to its end; the walk moves through the tree in listing order,
\* one place at a time, leaving out no sub-category it has to list, and no
\* listing request is made for the excluded sub-category.
RunTerminatesInOrder ==
    /\ [](pc = "paging" => (InTree /\ category_tree[cat][sub] # NoProducts))
    /\ [](pc # "idle" =>
            /\ \A q \in failed_subs \cup listed_subs : q \in ToWalk
            /\ \A q \in ToWalk : Passed(q) => q \in failed_subs \cup listed_subs)
    /\ [][Place' # Place => Place' = NextPlace]_vars
    /\ [](pc = "returned" => (done \/ cat > Len(category_tree)))
    /\ (pc = "walk") ~> (pc = "returned")

\* A run that walked a tree holding the excluded sub-category and one that
\* was listed to its end, without a cap stopping it.
RunTerminatesWitness ==
    /\ pc = "returned"
    /\ ~done
    /\ listed_subs # {}
    /\ \E c \in 1..Len(category_tree) : \E k \in 1..Len(category_tree[c]) :
          category_tree[c][k] = NoProducts

\* C14: an exception of _process_single_product never leaves the processing
\* loop (run is left by an exception only before any listing), the walk goes
\* on to every sub-category behind it, and a run without a cap ends with a
\* product for every identifier it listed none of whose listings failed.
TaskFailureDropsOnlyItsProduct ==
    /\ pc = "raised" => (listed_subs = {} /\ sub_products = <<>>)
    /\ (pc = "returned" /\ ~done) => ToWalk = failed_subs \cup listed_subs
    /\ (pc = "returned" /\ num_products = 0) =>
          (seq_crawled \ failing_ids) \subseteq Range(products)

\* The processing of a sub-category ended with the product of a listing that
\* came behind a listing of another product whose enrichment raised.
TaskFailureWitness ==
    /\ pc = "extend"
    /\ num_products = 0
    /\ \E i, j \in 1..Len(sub_products) :
          /\ i < j
          /\ sub_products[i].outcome = "raise"
          /\ sub_products[j].outcome = "ok"
          /\ sub_products[j].id # sub_products[i].id
          /\ sub_products[j].id \in Range(processed_products)

\* ======================================= properties of one enrichment call
\* C17: get_category_tags does not raise for an answer with another status
\* than 200 nor for a body that is not the expected JSON: it returns None,
\* and the product is returned with the breadcrumb as its category tags.
CategoryTagsNeverFail ==
    page.tags \in {"non200", "malformed"} =>
        /\ ~(single_pc = "category_tags" /\ single_ret = "raised")
        /\ single_ret = "product" => fields.category_tags = Breadcrumb

\* C18: the call gives no product only for an identifier already seen or a
\* product page that is not fetched; a fetched page without the details
\* container, the material header, the media grid or well-formed package
\* containers still gives a product, with that field empty or unknown.
OptionalFieldsDegrade ==
    /\ single_ret = "none" => single_pc \in {"check", "fetch"}
    /\ single_ret = "raised" =>
          single_pc \notin {"long_description", "materials", "images", "packages"}
    /\ (single_ret = "product" /\ ~page.material_header) => fields.materials = ""

\* ========================================= properties of the loop of run.py
\* C19: no exception raised inside a cycle ends the loop; each is given to
\* sentry and followed by the cooldown before the next cycle starts, and
\* every cycle starts with a crawler whose batch and seen set are empty.
LoopSurvivesExceptions ==
    /\ [](/\ loop_pc # "ended"
          /\ loop_pc \in Body \cup {"except"} => slept = captured
          /\ loop_pc = "sleep" => captured = slept + 1)
    /\ [][/\ loop_pc = "except" => (loop_pc' = "sleep" /\ captured' = captured + 1)
          /\ loop_pc = "sleep" => (loop_pc' = "new" /\ slept' = slept + 1)
          /\ loop_pc' = "crawl" =>
                (products' = <<>> /\ crawled_ids' = {} /\ ~done')]_vars

\* A cycle starts after a cycle that had crawled products raised and the
\* cooldown was slept.
LoopSurvivesWitness ==
    /\ loop_pc = "new"
    /\ products # <<>>
    /\ crawled_ids # {}
    /\ captured >= 1
    /\ slept = captured

====
